---------------------------- MODULE Spec2Model ----------------------------
(***************************************************************************)
(* A model of gym_table's TableEnv (src/gym_table/envs/table_env.py) and   *)
(* of the world objects it acts on (src/gym_table/grid_objects.py).        *)
(*                                                                         *)
(* The grid holds references to objects: a cell is an object id or None,   *)
(* and objs maps every id to the object's attributes, so that aliasing of  *)
(* one object by two owners is expressible.  The Grid class itself is not  *)
(* part of the sources; its get/set are modelled from the specification    *)
(* (bounds-checked, failing fast on an out-of-bounds access).              *)
(*                                                                         *)
(* A reward is a rational number; the variable reward holds its numerator  *)
(* over the denominator RewardDen(max_steps) = 10 * max_steps.             *)
(***************************************************************************)
EXTENDS Integers, FiniteSets, Sequences, TLC

VARIABLES
  grid,         \* self.grid: cell -> object id, or None
  objs,         \* the objects: id -> attributes
  agent_pos,    \* self.agent_pos
  agent_dir,    \* self.agent_dir
  carrying,     \* self.carrying: object id, or None
  step_count,   \* self.step_count
  start_pos,    \* self.start_pos
  start_dir,    \* self.start_dir
  act,          \* the last call: an action of step, or RESET
  reward,       \* the reward the last call to step returned (numerator)
  done,         \* the termination flag the last call to step returned
  raised,       \* the last call ended in an error instead of returning
  toggle_ret,   \* what the toggle method called by the last step returned
  calls,        \* the number of calls to step since the last reset
  pre,          \* the state on entry to the last call
  pre2,         \* the state on entry to the call before the last one
  fn            \* the call of a generation-time or pure operation and its
                \* result (a record; no such call in the episode machine)

vars == <<grid, objs, agent_pos, agent_dir, carrying, step_count,
          start_pos, start_dir, act, reward, done, raised, toggle_ret,
          calls, pre, pre2, fn>>

-----------------------------------------------------------------------------
(* Bounds of the model *)

Width == 3
Height == 3
MaxSteps == 3
ExtraSteps == 2

\* step is called at most MaxCount times between two resets
MaxCount == MaxSteps + ExtraSteps

-----------------------------------------------------------------------------
(* Constants of the program *)

None == 0

left == 0
right == 1
forward == 2
pickup == 3
drop == 4
toggle == 5
done_action == 6
Actions == {left, right, forward, pickup, drop, toggle, done_action}

\* action values outside the enumeration
UnknownActions == {7}

\* marks act after reset (no action of step)
RESET == -1

DIR_TO_VEC == <<(<<1, 0>>), (<<0, 1>>), (<<-1, 0>>), (<<0, -1>>)>>

\* cur_pos of an object that was never placed (Python None)
NoPos == <<-2, -2>>
\* cur_pos of a carried object, np.array([-1, -1])
OffGrid == <<-1, -1>>

Cells == (0 .. Width - 1) \X (0 .. Height - 1)

-----------------------------------------------------------------------------
(* Object model *)

WorldObj(type, color) ==
  [type |-> type, color |-> color, is_open |-> FALSE, is_locked |-> FALSE,
   contains |-> None, cur_pos |-> NoPos]

Goal == WorldObj("goal", "green")
Floor(color) == WorldObj("floor", color)
Wall(color) == WorldObj("wall", color)
Lava(color) == WorldObj("lava", color)
Key(color) == WorldObj("key", color)
Ball(color) == WorldObj("ball", color)
Door(color, is_open, is_locked) ==
  [WorldObj("door", color) EXCEPT !.is_open = is_open, !.is_locked = is_locked]
Box(color, contains) == [WorldObj("box", color) EXCEPT !.contains = contains]

\* the object as placed by place_obj at pos
At(o, pos) == [o EXCEPT !.cur_pos = pos]

can_overlap_nodoor(o) == o.type \in {"goal", "floor"}

can_overlap(o) ==
  CASE o.type \in {"goal", "floor"} -> TRUE
    [] o.type = "door" -> o.is_open
    [] OTHER -> FALSE

can_pickup_nobox(o) == o.type \in {"key", "ball"}

can_pickup(o) == o.type \in {"key", "ball", "box"}

see_behind_all(o) == TRUE

\* WorldObj.see_behind, overridden by Wall and Door
see_behind(o) ==
  CASE o.type = "wall" -> FALSE
    [] o.type = "door" -> o.is_open
    [] OTHER -> TRUE

Door_toggle_anykey(os, d, carried) ==
  IF os[d].is_locked
  THEN IF carried # None /\ os[carried].type = "key"
       THEN [objs |-> [os EXCEPT ![d].is_locked = FALSE, ![d].is_open = TRUE],
             ret |-> "True"]
       ELSE [objs |-> os, ret |-> "False"]
  ELSE [objs |-> [os EXCEPT ![d].is_open = ~@], ret |-> "True"]

\* Door.toggle locking the door again when it closes it
Door_toggle_relock(os, d, carried) ==
  IF os[d].is_locked
  THEN IF carried # None /\ os[carried].type = "key"
          /\ os[carried].color = os[d].color
       THEN [objs |-> [os EXCEPT ![d].is_locked = FALSE, ![d].is_open = TRUE],
             ret |-> "True"]
       ELSE [objs |-> os, ret |-> "False"]
  ELSE [objs |-> [os EXCEPT ![d].is_open = ~@, ![d].is_locked = os[d].is_open],
        ret |-> "True"]

\* Door.toggle: the objects afterwards and the value returned
Door_toggle(os, d, carried) ==
  IF os[d].is_locked
  THEN IF carried # None /\ os[carried].type = "key"
          /\ os[carried].color = os[d].color
       THEN [objs |-> [os EXCEPT ![d].is_locked = FALSE, ![d].is_open = TRUE],
             ret |-> "True"]
       ELSE [objs |-> os, ret |-> "False"]
  ELSE [objs |-> [os EXCEPT ![d].is_open = ~@], ret |-> "True"]

-----------------------------------------------------------------------------
(* Grid *)

InBounds(p) == p[1] >= 0 /\ p[1] < Width /\ p[2] >= 0 /\ p[2] < Height

Grid_get(g, p) == g[p]

Grid_set(g, p, v) == [g EXCEPT ![p] = v]

\* Box.toggle: the grid afterwards and the value returned
Box_toggle_keep(g, os, b, pos) == [grid |-> g, ret |-> "True"]

Box_toggle(g, os, b, pos) ==
  [grid |-> Grid_set(g, pos, os[b].contains), ret |-> "True"]

-----------------------------------------------------------------------------
(* Levels: what _gen_grid leaves behind *)

EmptyGrid == [c \in Cells |-> None]

Place(g, ids, poss) ==
  [c \in Cells |-> IF \E i \in DOMAIN ids : poss[i] = c
                   THEN ids[CHOOSE i \in DOMAIN ids : poss[i] = c]
                   ELSE g[c]]

LevelGoal ==
  [grid |-> Place(EmptyGrid, <<1, 2, 3, 4>>,
                  <<(<<2, 1>>), (<<1, 0>>), (<<0, 1>>), (<<1, 2>>)>>),
   objs |-> <<At(Goal, <<2, 1>>), At(Wall("grey"), <<1, 0>>),
              At(Floor("blue"), <<0, 1>>), At(Lava("red"), <<1, 2>>)>>,
   start_pos |-> <<1, 1>>]

LevelDoor ==
  [grid |-> Place(EmptyGrid, <<1, 2, 3, 4>>,
                  <<(<<2, 1>>), (<<1, 0>>), (<<0, 1>>), (<<1, 2>>)>>),
   objs |-> <<At(Door("yellow", FALSE, TRUE), <<2, 1>>),
              At(Key("yellow"), <<1, 0>>),
              At(Key("blue"), <<0, 1>>), At(Ball("blue"), <<1, 2>>)>>,
   start_pos |-> <<1, 1>>]

LevelBox ==
  [grid |-> Place(EmptyGrid, <<1, 3, 4, 5>>,
                  <<(<<2, 1>>), (<<1, 0>>), (<<0, 1>>), (<<1, 2>>)>>),
   objs |-> <<At(Box("red", 2), <<2, 1>>), Ball("green"),
              At(Box("purple", None), <<1, 0>>),
              At(Door("grey", FALSE, FALSE), <<0, 1>>),
              At(Key("red"), <<1, 2>>)>>,
   start_pos |-> <<1, 1>>]

Levels == {LevelGoal, LevelDoor, LevelBox}

-----------------------------------------------------------------------------
(* Agent view transform *)

dir_vec(d) == DIR_TO_VEC[d + 1]

\* right_vec: (-dy, dx)
right_vec(d) == <<-dir_vec(d)[2], dir_vec(d)[1]>>

front_pos(pos, d) == <<pos[1] + dir_vec(d)[1], pos[2] + dir_vec(d)[2]>>

\* number of cells (width and height) in the agent view
AGENT_VIEW_SIZE == 7

\* get_view_coords without the shift to the view's centre column
get_view_coords_corner(pos, d, i, j) ==
  LET dx == dir_vec(d)[1]  dy == dir_vec(d)[2]
      rx == right_vec(d)[1]  ry == right_vec(d)[2]
      sz == AGENT_VIEW_SIZE
      tx == pos[1] + (dx * (sz - 1))
      ty == pos[2] + (dy * (sz - 1))
      lx == i - tx
      ly == j - ty
  IN <<rx * lx + ry * ly, -(dx * lx + dy * ly)>>

\* get_view_coords: absolute (i, j) in the frame of the agent's view
get_view_coords(pos, d, i, j) ==
  LET dx == dir_vec(d)[1]  dy == dir_vec(d)[2]
      rx == right_vec(d)[1]  ry == right_vec(d)[2]
      sz == AGENT_VIEW_SIZE
      hs == AGENT_VIEW_SIZE \div 2
      tx == pos[1] + (dx * (sz - 1)) - (rx * hs)
      ty == pos[2] + (dy * (sz - 1)) - (ry * hs)
      lx == i - tx
      ly == j - ty
  IN <<rx * lx + ry * ly, -(dx * lx + dy * ly)>>

\* get_view_exts without the + 1 of the directions facing left and up
get_view_exts_short(pos, d) ==
  LET topX == CASE d = 0 -> pos[1]
                [] d = 1 -> pos[1] - AGENT_VIEW_SIZE \div 2
                [] d = 2 -> pos[1] - AGENT_VIEW_SIZE
                [] d = 3 -> pos[1] - AGENT_VIEW_SIZE \div 2
      topY == CASE d = 0 -> pos[2] - AGENT_VIEW_SIZE \div 2
                [] d = 1 -> pos[2]
                [] d = 2 -> pos[2] - AGENT_VIEW_SIZE \div 2
                [] d = 3 -> pos[2] - AGENT_VIEW_SIZE
  IN <<topX, topY, topX + AGENT_VIEW_SIZE, topY + AGENT_VIEW_SIZE>>

\* get_view_exts: (topX, topY, botX, botY), the bottom extents not included
get_view_exts(pos, d) ==
  LET topX == CASE d = 0 -> pos[1]
                [] d = 1 -> pos[1] - AGENT_VIEW_SIZE \div 2
                [] d = 2 -> pos[1] - AGENT_VIEW_SIZE + 1
                [] d = 3 -> pos[1] - AGENT_VIEW_SIZE \div 2
      topY == CASE d = 0 -> pos[2] - AGENT_VIEW_SIZE \div 2
                [] d = 1 -> pos[2]
                [] d = 2 -> pos[2] - AGENT_VIEW_SIZE \div 2
                [] d = 3 -> pos[2] - AGENT_VIEW_SIZE + 1
  IN <<topX, topY, topX + AGENT_VIEW_SIZE, topY + AGENT_VIEW_SIZE>>

\* relative_coords: the view coordinates, or NoPos (Python None) outside the view
relative_coords(pos, d, x, y) ==
  LET v == get_view_coords(pos, d, x, y)
  IN IF v[1] < 0 \/ v[2] < 0 \/ v[1] >= AGENT_VIEW_SIZE \/ v[2] >= AGENT_VIEW_SIZE
     THEN NoPos
     ELSE v

-----------------------------------------------------------------------------
(* The episode state machine *)

Snapshot ==
  [grid |-> grid, objs |-> objs, agent_pos |-> agent_pos,
   agent_dir |-> agent_dir, carrying |-> carrying, step_count |-> step_count,
   act |-> act, done |-> done, raised |-> raised]

\* the part of a snapshot kept of the call before the last one
World2(snap) ==
  [grid |-> snap.grid, objs |-> snap.objs, agent_pos |-> snap.agent_pos,
   agent_dir |-> snap.agent_dir, carrying |-> snap.carrying,
   step_count |-> snap.step_count]

\* fn while no generation-time or pure operation is observed
NoCall == [op |-> "none"]

\* the state reset leaves behind for level lvl and start direction d
Fresh(lvl, d) ==
  [grid |-> lvl.grid, objs |-> lvl.objs, agent_pos |-> lvl.start_pos,
   agent_dir |-> d, carrying |-> None, step_count |-> 0,
   act |-> RESET, done |-> FALSE, raised |-> FALSE]

\* no check of the start cell at all
start_cell_any(lvl) == TRUE

\* assert start_cell is None or start_cell.can_overlap()
start_cell_ok(lvl) ==
  LET start_cell == Grid_get(lvl.grid, lvl.start_pos)
  IN IF start_cell = None THEN TRUE ELSE can_overlap(lvl.objs[start_cell])

\* reset: _gen_grid builds a level, the agent is put on its start cell
reset ==
  \E lvl \in Levels, d \in 0 .. 3 :
    /\ start_cell_ok(lvl)
    /\ grid' = lvl.grid
    /\ objs' = lvl.objs
    /\ start_pos' = lvl.start_pos
    /\ start_dir' = d
    /\ agent_pos' = lvl.start_pos
    /\ agent_dir' = d
    /\ carrying' = None
    /\ step_count' = 0
    /\ act' = RESET
    /\ reward' = 0
    /\ done' = FALSE
    /\ raised' = FALSE
    /\ toggle_ret' = "none"
    /\ calls' = 0
    /\ pre' = Fresh(lvl, d)
    /\ pre2' = World2(Fresh(lvl, d))
    /\ UNCHANGED fn

Init ==
  \E lvl \in Levels, d \in 0 .. 3 :
    /\ start_cell_ok(lvl)
    /\ grid = lvl.grid
    /\ objs = lvl.objs
    /\ start_pos = lvl.start_pos
    /\ start_dir = d
    /\ agent_pos = lvl.start_pos
    /\ agent_dir = d
    /\ carrying = None
    /\ step_count = 0
    /\ act = RESET
    /\ reward = 0
    /\ done = FALSE
    /\ raised = FALSE
    /\ toggle_ret = "none"
    /\ calls = 0
    /\ pre = Fresh(lvl, d)
    /\ pre2 = World2(Fresh(lvl, d))
    /\ fn = NoCall

inc_keep(sc) == sc

\* self.step_count += 1
inc(sc) == sc + 1

RewardDen(max_steps) == 10 * max_steps

_reward_before(sc, max_steps) == 10 * max_steps - 9 * (sc - 1)

\* _reward: 1 - 0.9 * (step_count / max_steps), as a numerator over RewardDen
_reward(sc, max_steps) == 10 * max_steps - 9 * sc

\* what the branches of step work on and hand back
World ==
  [grid |-> grid, objs |-> objs, agent_pos |-> agent_pos,
   agent_dir |-> agent_dir, carrying |-> carrying,
   reward |-> 0, done |-> FALSE, toggle_ret |-> "none", raised |-> FALSE]

rotate_left(w) ==
  [w EXCEPT !.agent_dir = IF w.agent_dir - 1 < 0 THEN w.agent_dir - 1 + 4
                          ELSE w.agent_dir - 1]

rotate_right(w) == [w EXCEPT !.agent_dir = (w.agent_dir + 1) % 4]

move_forward(w, fwd_pos, fwd_cell, sc) ==
  LET moved == IF fwd_cell = None \/ can_overlap(w.objs[fwd_cell])
               THEN [w EXCEPT !.agent_pos = fwd_pos] ELSE w
      goal == IF fwd_cell # None /\ w.objs[fwd_cell].type = "goal"
              THEN [moved EXCEPT !.done = TRUE,
                                 !.reward = _reward(sc, MaxSteps)]
              ELSE moved
  IN IF fwd_cell # None /\ w.objs[fwd_cell].type = "lava"
     THEN [goal EXCEPT !.done = TRUE] ELSE goal

pickup_full_hands(w, fwd_pos, fwd_cell) ==
  IF fwd_cell # None /\ can_pickup(w.objs[fwd_cell])
  THEN [w EXCEPT !.carrying = fwd_cell,
                 !.objs[fwd_cell].cur_pos = OffGrid,
                 !.grid = Grid_set(w.grid, fwd_pos, None)]
  ELSE w

pickup_keep_cell(w, fwd_pos, fwd_cell) ==
  IF fwd_cell # None /\ can_pickup(w.objs[fwd_cell]) /\ w.carrying = None
  THEN [w EXCEPT !.carrying = fwd_cell,
                 !.objs[fwd_cell].cur_pos = OffGrid]
  ELSE w

pickup_object(w, fwd_pos, fwd_cell) ==
  IF fwd_cell # None /\ can_pickup(w.objs[fwd_cell])
  THEN IF w.carrying = None
       THEN [w EXCEPT !.carrying = fwd_cell,
                      !.objs[fwd_cell].cur_pos = OffGrid,
                      !.grid = Grid_set(w.grid, fwd_pos, None)]
       ELSE w
  ELSE w

drop_keep_carrying(w, fwd_pos, fwd_cell) ==
  IF fwd_cell = None /\ w.carrying # None
  THEN [w EXCEPT !.grid = Grid_set(w.grid, fwd_pos, w.carrying),
                 !.objs[w.carrying].cur_pos = fwd_pos]
  ELSE w

\* drop onto the agent's own cell
drop_at_feet(w, fwd_pos, fwd_cell) ==
  IF fwd_cell = None /\ w.carrying # None
  THEN [w EXCEPT !.grid = Grid_set(w.grid, w.agent_pos, w.carrying),
                 !.objs[w.carrying].cur_pos = w.agent_pos,
                 !.carrying = None]
  ELSE w

drop_object(w, fwd_pos, fwd_cell) ==
  IF fwd_cell = None /\ w.carrying # None
  THEN [w EXCEPT !.grid = Grid_set(w.grid, fwd_pos, w.carrying),
                 !.objs[w.carrying].cur_pos = fwd_pos,
                 !.carrying = None]
  ELSE w

toggle_object(w, fwd_pos, fwd_cell) ==
  IF fwd_cell # None
  THEN CASE w.objs[fwd_cell].type = "door" ->
              LET r == Door_toggle(w.objs, fwd_cell, w.carrying)
              IN [w EXCEPT !.objs = r.objs, !.toggle_ret = r.ret]
         [] w.objs[fwd_cell].type = "box" ->
              LET r == Box_toggle(w.grid, w.objs, fwd_cell, fwd_pos)
              IN [w EXCEPT !.grid = r.grid, !.toggle_ret = r.ret]
         [] OTHER -> [w EXCEPT !.toggle_ret = "False"]
  ELSE w

unknown_absorbed(w) == w

\* assert False, "unknown action"
unknown_action(w) == [w EXCEPT !.raised = TRUE]

\* if self.step_count >= self.max_steps: done = True
timeout(w, sc) == IF sc >= MaxSteps THEN [w EXCEPT !.done = TRUE] ELSE w

step(action) ==
  /\ calls < MaxCount
  /\ calls' = calls + 1
  /\ pre' = Snapshot
  /\ pre2' = IF act = RESET THEN World2(Snapshot) ELSE World2(pre)
  /\ act' = action
  /\ step_count' = inc(step_count)
  /\ UNCHANGED <<start_pos, start_dir, fn>>
  /\ LET fwd_pos == front_pos(agent_pos, agent_dir) IN
     IF ~InBounds(fwd_pos)
     THEN \* self.grid.get(*fwd_pos) fails: step raises
          /\ raised' = TRUE
          /\ reward' = 0
          /\ done' = FALSE
          /\ toggle_ret' = "none"
          /\ UNCHANGED <<grid, objs, agent_pos, agent_dir, carrying>>
     ELSE LET fwd_cell == Grid_get(grid, fwd_pos)
              w == CASE action = left -> rotate_left(World)
                     [] action = right -> rotate_right(World)
                     [] action = forward ->
                          move_forward(World, fwd_pos, fwd_cell, inc(step_count))
                     [] action = pickup -> pickup_object(World, fwd_pos, fwd_cell)
                     [] action = drop -> drop_object(World, fwd_pos, fwd_cell)
                     [] action = toggle -> toggle_object(World, fwd_pos, fwd_cell)
                     [] action = done_action -> World
                     [] OTHER -> unknown_action(World)
              r == IF w.raised THEN w ELSE timeout(w, inc(step_count))
          IN /\ raised' = r.raised
             /\ grid' = r.grid
             /\ objs' = r.objs
             /\ agent_pos' = r.agent_pos
             /\ agent_dir' = r.agent_dir
             /\ carrying' = r.carrying
             /\ reward' = r.reward
             /\ done' = r.done
             /\ toggle_ret' = r.toggle_ret

Next ==
  \/ \E action \in Actions : step(action)
  \/ reset

Spec == Init /\ [][Next]_vars

\* the episode machine driven by a caller that also passes unknown actions
NextAny ==
  \/ \E action \in Actions \cup UnknownActions : step(action)
  \/ reset

SpecAny == Init /\ [][NextAny]_vars

-----------------------------------------------------------------------------
(* reset with level generators that may be malformed *)

\* start_dir left unset by the generator (Python None)
NoDir == -1

\* generators that leave start_pos unset or put the agent onto a wall
BadLevels ==
  {[LevelGoal EXCEPT !.start_pos = NoPos],
   [LevelGoal EXCEPT !.start_pos = <<1, 0>>]}

\* what _gen_grid may leave behind: a level and a start direction
Generated ==
  (Levels \X (0 .. 3)) \cup {<<LevelGoal, NoDir>>} \cup (BadLevels \X {0})

\* the three assertions of reset hold of what the generator left behind
reset_asserts(lvl, d) ==
  IF lvl.start_pos = NoPos THEN FALSE
  ELSE IF d = NoDir THEN FALSE
  ELSE start_cell_ok(lvl)

\* reset: _gen_grid has replaced grid and start fields; a failed assertion
\* ends the call before the agent state is touched
reset_gen ==
  \E gen \in Generated : LET lvl == gen[1]  d == gen[2] IN
    /\ grid' = lvl.grid
    /\ objs' = lvl.objs
    /\ start_pos' = lvl.start_pos
    /\ start_dir' = d
    /\ act' = RESET
    /\ pre' = Snapshot
    /\ pre2' = World2(Fresh(lvl, d))
    /\ reward' = 0
    /\ done' = FALSE
    /\ toggle_ret' = "none"
    /\ UNCHANGED fn
    /\ IF reset_asserts(lvl, d)
       THEN /\ raised' = FALSE
            /\ agent_pos' = lvl.start_pos
            /\ agent_dir' = d
            /\ carrying' = None
            /\ step_count' = 0
            /\ calls' = 0
       ELSE /\ raised' = TRUE
            /\ UNCHANGED <<agent_pos, agent_dir, carrying, step_count, calls>>

\* step, called only on an environment whose last reset did not fail
step_after_reset(action) ==
  /\ ~(act = RESET /\ raised)
  /\ step(action)

NextReset ==
  \/ \E action \in Actions : step_after_reset(action)
  \/ reset_gen

SpecReset == Init /\ [][NextReset]_vars

-----------------------------------------------------------------------------
(* Doors constructed with every combination of the constructor's flags *)

\* LevelDoor with its door built as Door('yellow', is_open, is_locked)
DoorLevels ==
  {[LevelDoor EXCEPT !.objs[1] = At(Door("yellow", o, l), <<2, 1>>)] :
     o \in BOOLEAN, l \in BOOLEAN}

InitDoor ==
  \E lvl \in DoorLevels, d \in 0 .. 3 :
    /\ start_cell_ok(lvl)
    /\ grid = lvl.grid
    /\ objs = lvl.objs
    /\ start_pos = lvl.start_pos
    /\ start_dir = d
    /\ agent_pos = lvl.start_pos
    /\ agent_dir = d
    /\ carrying = None
    /\ step_count = 0
    /\ act = RESET
    /\ reward = 0
    /\ done = FALSE
    /\ raised = FALSE
    /\ toggle_ret = "none"
    /\ calls = 0
    /\ pre = Fresh(lvl, d)
    /\ pre2 = World2(Fresh(lvl, d))
    /\ fn = NoCall

NextDoor == \E action \in Actions : step(action)

SpecDoor == InitDoor /\ [][NextDoor]_vars

-----------------------------------------------------------------------------
(* Operations observed on their own: the environment is left as it is *)

\* everything but fn
env_vars ==
  <<grid, objs, agent_pos, agent_dir, carrying, step_count, start_pos,
    start_dir, act, reward, done, raised, toggle_ret, calls, pre, pre2>>

\* the environment after a reset on level lvl with start direction d
Constructed(lvl, d) ==
  /\ grid = lvl.grid
  /\ objs = lvl.objs
  /\ start_pos = lvl.start_pos
  /\ start_dir = d
  /\ agent_pos = lvl.start_pos
  /\ agent_dir = d
  /\ carrying = None
  /\ step_count = 0
  /\ act = RESET
  /\ reward = 0
  /\ done = FALSE
  /\ raised = FALSE
  /\ toggle_ret = "none"
  /\ calls = 0
  /\ pre = Fresh(lvl, d)
  /\ pre2 = World2(Fresh(lvl, d))

\* a level without objects, the agent starting on cell p
OpenLevel(p) == [grid |-> EmptyGrid, objs |-> <<>>, start_pos |-> p]

-----------------------------------------------------------------------------
(* relative_coords for every agent pose *)

\* the coordinates asked about: the grid and one cell around it
Probes == (-1 .. Width) \X (-1 .. Height)

InitView ==
  \E p \in Cells, d \in 0 .. 3 :
    /\ Constructed(OpenLevel(p), d)
    /\ fn = NoCall

relative_coords_call ==
  \E c \in Probes :
    /\ fn' = [op |-> "relative_coords", x |-> c[1], y |-> c[2],
              ret |-> relative_coords(agent_pos, agent_dir, c[1], c[2])]
    /\ UNCHANGED env_vars

NextView == relative_coords_call

SpecView == InitView /\ [][NextView]_vars

-----------------------------------------------------------------------------
(* place_obj and place_agent: rejection sampling, one candidate per step *)

MaxTries == 2

\* candidates drawn before an unbounded retry is no longer followed
MaxDraws == MaxTries + 2

\* max_tries = math.inf
Inf == -1

PlaceOps == {"place_obj", "place_agent"}

\* (top, size) of the rectangle to place in; the first is the default, the
\* last reaches over the right border of the grid
Regions ==
  {<<(<<0, 0>>), (<<Width, Height>>)>>,
   <<(<<1, 0>>), (<<1, 2>>)>>,
   <<(<<0, 0>>), (<<2, 2>>)>>,
   <<(<<Width - 1, 0>>), (<<2, 1>>)>>}

\* reject_fn: none given, or one that filters out the first column
RejectFns == {"none", "first_column"}

reject_fn(name, pos) == name = "first_column" /\ pos[1] = 0

\* _rand_int: an integer in [low, high[
_rand_int(low, high) == low .. (high - 1)

InRegion(top, size, pos) ==
  /\ pos[1] \in _rand_int(top[1], top[1] + size[1])
  /\ pos[2] \in _rand_int(top[2], top[2] + size[2])

\* the candidate test without the comparison with start_pos
place_obj_accepts_nostart(g, start, rej, pos) ==
  /\ Grid_get(g, pos) = None
  /\ ~reject_fn(rej, pos)

\* the candidate passes the three tests of the loop body (no continue)
place_obj_accepts(g, start, rej, pos) ==
  /\ Grid_get(g, pos) = None
  /\ pos # start
  /\ ~reject_fn(rej, pos)

\* the levels placed into, before and after the agent has a start position
PlaceLevels ==
  {LevelGoal, OpenLevel(<<1, 1>>),
   [LevelGoal EXCEPT !.start_pos = NoPos], OpenLevel(NoPos)}

InitPlace ==
  \E lvl \in PlaceLevels :
    /\ Constructed(lvl, 0)
    /\ fn = NoCall

\* entry of place_obj(obj, top, size, reject_fn, max_tries) with a new Key,
\* or of place_agent(top, size, max_tries), which unsets start_pos first
place_call ==
  /\ fn.op = "none"
  /\ \E op \in PlaceOps, reg \in Regions, rej \in RejectFns,
        mt \in (0 .. MaxTries) \cup {Inf} :
       /\ op = "place_agent" => rej = "none"
       /\ fn' = [op |-> op,
                 obj |-> IF op = "place_obj" THEN Len(objs) + 1 ELSE None,
                 top |-> reg[1], size |-> reg[2], reject_fn |-> rej,
                 max_tries |-> mt, num_tries |-> 0, pos |-> NoPos,
                 pc |-> "loop", err |-> "none", grid |-> grid,
                 start |-> IF op = "place_agent" THEN NoPos ELSE start_pos]
       /\ start_pos' = IF op = "place_agent" THEN NoPos ELSE start_pos
       /\ objs' = IF op = "place_obj" THEN Append(objs, Key("red")) ELSE objs
  /\ UNCHANGED <<grid, agent_pos, agent_dir, carrying, step_count, start_dir,
                 act, reward, done, raised, toggle_ret, calls, pre, pre2>>

\* one pass of the while loop of place_obj; the pass that breaks also runs
\* the code after the loop and, for place_agent, the rest of place_agent
place_loop ==
  /\ fn.op \in PlaceOps
  /\ fn.pc = "loop"
  /\ UNCHANGED <<agent_pos, agent_dir, carrying, step_count, act, reward,
                 done, raised, toggle_ret, calls, pre, pre2>>
  /\ IF fn.max_tries # Inf /\ fn.num_tries > fn.max_tries
     THEN /\ fn' = [fn EXCEPT !.pc = "raised", !.err = "RecursionError"]
          /\ UNCHANGED <<grid, objs, start_pos, start_dir>>
     ELSE /\ fn.num_tries < MaxDraws
          /\ \E x \in _rand_int(fn.top[1], fn.top[1] + fn.size[1]),
                y \in _rand_int(fn.top[2], fn.top[2] + fn.size[2]) :
               LET pos == <<x, y>>
                   drawn == [fn EXCEPT !.num_tries = @ + 1, !.pos = pos]
               IN IF ~InBounds(pos)
                  THEN /\ fn' = [drawn EXCEPT !.pc = "raised",
                                              !.err = "IndexError"]
                       /\ UNCHANGED <<grid, objs, start_pos, start_dir>>
                  ELSE IF ~place_obj_accepts(grid, start_pos, fn.reject_fn, pos)
                  THEN /\ fn' = drawn
                       /\ UNCHANGED <<grid, objs, start_pos, start_dir>>
                  ELSE /\ fn' = [drawn EXCEPT !.pc = "returned"]
                       /\ grid' = Grid_set(grid, pos, fn.obj)
                       /\ objs' = IF fn.obj # None
                                  THEN [objs EXCEPT ![fn.obj].cur_pos = pos]
                                  ELSE objs
                       /\ IF fn.op = "place_agent"
                          THEN /\ start_pos' = pos
                               /\ \E d \in _rand_int(0, 4) : start_dir' = d
                          ELSE UNCHANGED <<start_pos, start_dir>>

NextPlace ==
  \/ place_call
  \/ place_loop

SpecPlace == InitPlace /\ [][NextPlace]_vars

-----------------------------------------------------------------------------
(* Grid.encode and Grid.decode *)

COLOR_TO_IDX ==
  [red |-> 0, green |-> 1, blue |-> 2, purple |-> 3, yellow |-> 4, grey |-> 5]

IDX_TO_COLOR ==
  [i \in {COLOR_TO_IDX[k] : k \in DOMAIN COLOR_TO_IDX} |->
     CHOOSE k \in DOMAIN COLOR_TO_IDX : COLOR_TO_IDX[k] = i]

OBJECT_TO_IDX ==
  [unseen |-> 0, empty |-> 1, wall |-> 2, floor |-> 3, door |-> 4, key |-> 5,
   ball |-> 6, box |-> 7, goal |-> 8, lava |-> 9]

IDX_TO_OBJECT ==
  [i \in {OBJECT_TO_IDX[k] : k \in DOMAIN OBJECT_TO_IDX} |->
     CHOOSE k \in DOMAIN OBJECT_TO_IDX : OBJECT_TO_IDX[k] = i]

\* the wall that slice puts where the viewport leaves the grid
OutOfBounds == -1

\* a decoded cell without an object
EmptyCell == [type |-> "empty"]

\* third channel: 0, and for doors 1 = open, 2 = closed, 3 = locked; both is
\* the value emitted for a door that is open and locked at once
door_state_id(o, both) ==
  IF o.type # "door" THEN 0
  ELSE IF o.is_open /\ o.is_locked THEN both
  ELSE IF o.is_locked THEN 3
  ELSE IF o.is_open THEN 1
  ELSE 2

encode(g, os, vis_mask, both) ==
  [c \in DOMAIN g |->
     IF ~vis_mask[c] \/ g[c] = OutOfBounds
     THEN <<OBJECT_TO_IDX["unseen"], 0, 0>>
     ELSE IF g[c] = None
     THEN <<OBJECT_TO_IDX["empty"], 0, 0>>
     ELSE <<OBJECT_TO_IDX[os[g[c]].type], COLOR_TO_IDX[os[g[c]].color],
            door_state_id(os[g[c]], both)>>]

\* the inverse of encode, unseen cells becoming empty
decode(array) ==
  [c \in DOMAIN array |->
     IF array[c][1] \in {OBJECT_TO_IDX["unseen"], OBJECT_TO_IDX["empty"]}
     THEN EmptyCell
     ELSE [WorldObj(IDX_TO_OBJECT[array[c][1]], IDX_TO_COLOR[array[c][2]])
             EXCEPT !.is_open = (array[c][3] = 1),
                    !.is_locked = (array[c][3] = 3)]]

\* every object the constructors build, doors with every flag combination
CodecObjects ==
  {Goal}
  \cup UNION {{Wall(c), Floor(c), Key(c), Ball(c), Box(c, None)} :
                c \in DOMAIN COLOR_TO_IDX}
  \cup {Door(c, o, l) : c \in DOMAIN COLOR_TO_IDX, o \in BOOLEAN, l \in BOOLEAN}

\* the object filling the other cells when they are not left empty
FillObjects == {Wall("grey"), Door("purple", FALSE, TRUE)}

InitCodec ==
  /\ Constructed(OpenLevel(<<1, 1>>), 0)
  /\ fn = NoCall

\* decode(encode(vis_mask)) of a grid holding object o1 on cell p and, on
\* every other cell, nothing, object o2 or the out-of-bounds wall
encode_decode_call ==
  /\ fn.op = "none"
  /\ \E p \in Cells, o1 \in CodecObjects, o2 \in FillObjects,
        rest \in {None, 2, OutOfBounds}, hidden \in BOOLEAN,
        both \in {1, 3} :
       LET g == [c \in Cells |-> IF c = p THEN 1 ELSE rest]
           os == <<o1, o2>>
           vis_mask == [c \in Cells |-> ~(hidden /\ c = p)]
           array == encode(g, os, vis_mask, both)
       IN fn' = [op |-> "encode_decode", grid |-> g, objs |-> os,
                 vis_mask |-> vis_mask, array |-> array,
                 decoded |-> decode(array)]
  /\ UNCHANGED env_vars

NextCodec == encode_decode_call

SpecCodec == InitCodec /\ [][NextCodec]_vars

-----------------------------------------------------------------------------
(* Grid.process_vis on the agent's viewport *)

ViewCols == 0 .. (AGENT_VIEW_SIZE - 1)

ViewCells == ViewCols \X ViewCols

\* the agent's cell in its viewport: (AGENT_VIEW_SIZE // 2, AGENT_VIEW_SIZE - 1)
ViewAgentPos == <<AGENT_VIEW_SIZE \div 2, AGENT_VIEW_SIZE - 1>>

\* visibility passes on through cell c of viewport g
sees_through(g, os, c) ==
  IF g[c] = None THEN TRUE
  ELSE IF g[c] = OutOfBounds THEN FALSE
  ELSE see_behind(os[g[c]])

\* the three cells one row closer to the agent than c
Predecessors(c) ==
  IF c[2] + 1 \in ViewCols
  THEN {<<x, c[2] + 1>> : x \in {c[1] - 1, c[1], c[1] + 1} \cap ViewCols}
  ELSE {}

\* the masks of rows j, j - 1, .., 0, given the mask prev of row j + 1
RECURSIVE vis_rows(_, _, _, _)
vis_rows(g, os, j, prev) ==
  LET row == [x \in ViewCols |->
                \E q \in Predecessors(<<x, j>>) :
                  prev[q[1]] /\ sees_through(g, os, q)]
  IN IF j = 0 THEN (0 :> row)
     ELSE vis_rows(g, os, j - 1, row) @@ (j :> row)

\* process_vis: the mask of the cells visible from the agent's cell apos
process_vis(g, os, apos) ==
  LET agent_row == [x \in ViewCols |-> x = apos[1]]
      rows == vis_rows(g, os, apos[2] - 1, agent_row)
  IN [c \in ViewCells |->
        IF c[2] = apos[2] THEN agent_row[c[1]]
        ELSE IF c[2] > apos[2] THEN FALSE
        ELSE rows[c[2]][c[1]]]

MaxOccluders == 3

\* the cells objects are put on: the two rows in front of the agent
OccCells == {c \in ViewCells : c[2] \in {ViewAgentPos[2] - 1, ViewAgentPos[2] - 2}}

\* the objects put there: a wall, a closed and an open door, a key
VisObjects ==
  <<Wall("grey"), Door("red", FALSE, FALSE), Door("red", TRUE, FALSE),
    Key("blue")>>

InitVis ==
  /\ Constructed(OpenLevel(<<1, 1>>), 0)
  /\ fn = NoCall

\* process_vis of a viewport that is empty or holds one kind of object, or the
\* out-of-bounds wall, on up to MaxOccluders cells
process_vis_call ==
  /\ fn.op = "none"
  /\ \E cs \in {S \in SUBSET OccCells : Cardinality(S) <= MaxOccluders},
        k \in (DOMAIN VisObjects) \cup {OutOfBounds, None} :
       LET g == [c \in ViewCells |-> IF c \in cs THEN k ELSE None]
       IN fn' = [op |-> "process_vis", grid |-> g, objs |-> VisObjects,
                 vis_mask |-> process_vis(g, VisObjects, ViewAgentPos)]
  /\ UNCHANGED env_vars

NextVis == process_vis_call

SpecVis == InitVis /\ [][NextVis]_vars

-----------------------------------------------------------------------------
(* Episodes that also start on a level whose door is not on the border *)

\* the agent starts on the left border, a closed door on the centre cell,
\* a key behind the door and a locked door below the start cell
LevelHall ==
  [grid |-> Place(EmptyGrid, <<1, 2, 3>>,
                  <<(<<1, 1>>), (<<2, 1>>), (<<0, 2>>)>>),
   objs |-> <<At(Door("grey", FALSE, FALSE), <<1, 1>>),
              At(Key("blue"), <<2, 1>>),
              At(Door("blue", FALSE, TRUE), <<0, 2>>)>>,
   start_pos |-> <<0, 1>>]

HallLevels == Levels \cup {LevelHall}

InitHall ==
  \E lvl \in HallLevels, d \in 0 .. 3 :
    /\ start_cell_ok(lvl)
    /\ Constructed(lvl, d)
    /\ fn = NoCall

NextHall ==
  \/ \E action \in Actions : step(action)
  \/ reset

SpecHall == InitHall /\ [][NextHall]_vars

-----------------------------------------------------------------------------
(* get_view_exts against relative_coords *)

\* the coordinates asked about: every cell within a view's length of the grid
FarProbes ==
  (-AGENT_VIEW_SIZE .. Width + AGENT_VIEW_SIZE - 1)
    \X (-AGENT_VIEW_SIZE .. Height + AGENT_VIEW_SIZE - 1)

\* get_view_exts() and relative_coords(x, y) in the same agent pose
view_exts_call ==
  /\ fn.op = "none"
  /\ \E c \in FarProbes :
       fn' = [op |-> "view_exts", x |-> c[1], y |-> c[2],
              exts |-> get_view_exts(agent_pos, agent_dir),
              ret |-> relative_coords(agent_pos, agent_dir, c[1], c[2])]
  /\ UNCHANGED env_vars

NextExts == view_exts_call

SpecExts == InitView /\ [][NextExts]_vars

-----------------------------------------------------------------------------
(* gen_obs_grid: the viewport sliced out of the grid and turned forward-up *)

\* Grid.slice: the w x h sub-grid anchored at (topX, topY), the cells outside
\* the grid filled with the out-of-bounds wall
Grid_slice(g, topX, topY, w, h) ==
  [c \in (0 .. w - 1) \X (0 .. h - 1) |->
     LET p == <<topX + c[1], topY + c[2]>>
     IN IF InBounds(p) THEN Grid_get(g, p) ELSE OutOfBounds]

\* Grid.rotate_left of a square grid of side sz: a quarter turn
\* counter-clockwise, the right column becoming the top row
Grid_rotate_left(g, sz) ==
  [c \in (0 .. sz - 1) \X (0 .. sz - 1) |-> g[<<sz - 1 - c[2], c[1]>>]]

\* for i in range(n): grid = grid.rotate_left()
RECURSIVE rotate_times(_, _, _)
rotate_times(g, sz, n) ==
  IF n = 0 THEN g ELSE rotate_times(Grid_rotate_left(g, sz), sz, n - 1)

\* gen_obs_grid turning the slice agent_dir times only
gen_obs_grid_one_less(g, os, pos, d, carried) ==
  LET exts == get_view_exts(pos, d)
      sliced == Grid_slice(g, exts[1], exts[2], AGENT_VIEW_SIZE,
                           AGENT_VIEW_SIZE)
      turned == rotate_times(sliced, AGENT_VIEW_SIZE, d)
      vis_mask == process_vis(turned, os, ViewAgentPos)
  IN [grid |-> Grid_set(turned, ViewAgentPos, carried), vis_mask |-> vis_mask]

\* gen_obs_grid (see_through_walls = False): the observed sub-grid and its
\* visibility mask
gen_obs_grid(g, os, pos, d, carried) ==
  LET exts == get_view_exts(pos, d)
      sliced == Grid_slice(g, exts[1], exts[2], AGENT_VIEW_SIZE,
                           AGENT_VIEW_SIZE)
      turned == rotate_times(sliced, AGENT_VIEW_SIZE, d + 1)
      vis_mask == process_vis(turned, os, ViewAgentPos)
  IN [grid |-> Grid_set(turned, ViewAgentPos, carried), vis_mask |-> vis_mask]

\* the levels with the agent started on any cell it may stand on
ObsLevels == {[lvl EXCEPT !.start_pos = p] : lvl \in HallLevels, p \in Cells}

InitObs ==
  \E lvl \in ObsLevels, d \in 0 .. 3 :
    /\ start_cell_ok(lvl)
    /\ Constructed(lvl, d)
    /\ fn = NoCall

\* a first step(pickup), so that observations are also made with full hands
pickup_first ==
  /\ fn.op = "none"
  /\ calls = 0
  /\ step(pickup)

gen_obs_grid_call ==
  /\ fn.op = "none"
  /\ LET obs == gen_obs_grid(grid, objs, agent_pos, agent_dir, carrying)
     IN fn' = [op |-> "gen_obs_grid", grid |-> obs.grid,
               vis_mask |-> obs.vis_mask]
  /\ UNCHANGED env_vars

NextObs ==
  \/ pickup_first
  \/ gen_obs_grid_call

SpecObs == InitObs /\ [][NextObs]_vars

-----------------------------------------------------------------------------
(* What the properties below read of the last call *)

\* the last call was a call to step
Stepped == act \in Actions

\* the last call to step returned (did not raise)
Returned == Stepped /\ ~raised

\* the cell in front of the agent on entry to the last call
PreFwdPos == front_pos(pre.agent_pos, pre.agent_dir)
PreFwdIn == InBounds(PreFwdPos)
PreFwdCell == IF PreFwdIn THEN pre.grid[PreFwdPos] ELSE None
PreFwdType == IF PreFwdCell = None THEN "empty" ELSE pre.objs[PreFwdCell].type

\* the objects apart from their cur_pos
Attrs(os) == [i \in DOMAIN os |-> [os[i] EXCEPT !.cur_pos = NoPos]]

-----------------------------------------------------------------------------
(* C1: the call to step that makes step_count equal max_steps returns      *)
(* termination = true, whatever the action is (so every episode ends       *)
(* within max_steps calls).                                                *)
C1_TimeoutTerminates ==
  (Stepped /\ step_count = MaxSteps) => (~raised /\ done)

(* C2: step is total over the action space: in every reachable state,      *)
(* step(a) for each a in 0..6 completes without raising an error, also     *)
(* when the agent stands on a border cell and faces outward.               *)
C2_StepTotal == Stepped => ~raised

(* C3 as stated: step(pickup) immediately followed by step(drop) restores  *)
(* the grid and leaves the inventory empty, whatever the inventory and the *)
(* forward cell held before the pair; only step_count differs, by 2.       *)
C3_PickupDropRestoresAlways ==
  (act = drop /\ pre.act = pickup) =>
    /\ grid = pre2.grid
    /\ carrying = None
    /\ agent_pos = pre2.agent_pos /\ agent_dir = pre2.agent_dir
    /\ Attrs(objs) = Attrs(pre2.objs)
    /\ step_count = pre2.step_count + 2

(* C3 as amended: when the inventory is empty before the pair,             *)
(* step(pickup) immediately followed by step(drop) restores the grid (the  *)
(* forward cell holds the object it held before) and leaves the inventory  *)
(* empty; agent position, direction and the objects' attributes are as     *)
(* before and step_count is larger by 2.                                   *)
C3_PickupDropRestores ==
  (act = drop /\ pre.act = pickup /\ pre2.carrying = None) =>
    /\ grid = pre2.grid
    /\ carrying = None
    /\ agent_pos = pre2.agent_pos /\ agent_dir = pre2.agent_dir
    /\ Attrs(objs) = Attrs(pre2.objs)
    /\ step_count = pre2.step_count + 2

\* a pickup that took an object from the forward cell, then a drop that put it back
C3_Witness ==
  /\ act = drop /\ pre.act = pickup
  /\ pre2.carrying = None
  /\ PreFwdIn
  /\ pre2.grid[PreFwdPos] # None
  /\ pre.grid[PreFwdPos] = None
  /\ pre.carrying = pre2.grid[PreFwdPos]
  /\ grid[PreFwdPos] = pre2.grid[PreFwdPos]
  /\ carrying = None

(* C4: whenever the forward cell holds a goal, step(move_forward) moves    *)
(* the agent into that cell, returns termination = true and the reward     *)
(* 1 - 0.9 * (step_count / max_steps) with step_count the counter after    *)
(* this step's increment; with max_steps = 100 the first step gives 0.991. *)
C4_GoalReward ==
  /\ (act = forward /\ PreFwdType = "goal") =>
       /\ ~raised
       /\ agent_pos = PreFwdPos
       /\ done
       /\ step_count = pre.step_count + 1
       /\ reward = 10 * MaxSteps - 9 * step_count
  /\ _reward(1, 100) * 1000 = 991 * RewardDen(100)

\* a move onto a goal before the step limit, with a reward strictly between 0 and 1
C4_Witness ==
  /\ act = forward /\ PreFwdType = "goal"
  /\ agent_pos = PreFwdPos
  /\ step_count < MaxSteps
  /\ reward > 0 /\ reward < RewardDen(MaxSteps)

(* C5: every reward returned by step lies in [0, 1], for every action and  *)
(* every state reachable by step calls after reset, also after a step has  *)
(* returned termination = true; the reward is 0 for every step other than  *)
(* a move_forward whose forward cell is a goal.                            *)
C5_RewardInRange ==
  Returned =>
    /\ reward >= 0 /\ reward <= RewardDen(MaxSteps)
    /\ (~(act = forward /\ PreFwdType = "goal") => reward = 0)

C7_PickupFullHands ==
  (act = pickup /\ pre.carrying # None) =>
    /\ carrying = pre.carrying
    /\ grid = pre.grid
    /\ objs = pre.objs

\* a pickup with full hands in front of an object that can be picked up
C7_Witness ==
  /\ act = pickup /\ pre.carrying # None
  /\ PreFwdType \in {"key", "ball", "box"}
  /\ ~raised

InCell(i) == \E c \in Cells : grid[c] = i
Owned(i) == InCell(i) \/ carrying = i

(* C9: exclusive ownership: no object is referenced by two grid cells, no  *)
(* object is referenced by a grid cell and by the inventory, and an object *)
(* inside a box that is in a cell or carried is in no cell and not         *)
(* carried; pickup, drop and box toggle never leave an object in two       *)
(* places.                                                                 *)
C9_ExclusiveOwnership ==
  /\ \A c1, c2 \in Cells :
       (c1 # c2 /\ grid[c1] # None) => grid[c1] # grid[c2]
  /\ \A c \in Cells : grid[c] # None => grid[c] # carrying
  /\ carrying \in {None} \cup DOMAIN objs
  /\ \A b \in DOMAIN objs :
       (Owned(b) /\ objs[b].contains # None) => ~Owned(objs[b].contains)

\* a box toggled open: its content is in the cell, the box is nowhere
C9_Witness ==
  /\ act = toggle /\ PreFwdType = "box"
  /\ pre.objs[PreFwdCell].contains # None
  /\ grid[PreFwdPos] = pre.objs[PreFwdCell].contains
  /\ ~Owned(PreFwdCell)

(* C10: every call to step with an action in 0..6 increases step_count by  *)
(* exactly 1, also when the action is a no-op and after a step has         *)
(* returned termination = true, so step_count equals the number of step    *)
(* calls since the last reset.                                             *)
C10_StepCount ==
  /\ step_count = calls
  /\ Stepped => step_count = pre.step_count + 1

\* a no-op call made after an earlier call returned termination = true
C10_Witness ==
  /\ act = done_action
  /\ pre.act \in Actions /\ pre.done
  /\ step_count = pre.step_count + 1
  /\ step_count > MaxSteps

(* C15: step(turn_left) sets agent_direction to (d - 1) mod 4 and          *)
(* step(turn_right) to (d + 1) mod 4, the direction stays in 0..3, neither *)
(* changes agent_position, the grid or the inventory, turn_left followed   *)
(* by turn_right and four equal turns restore the direction, and after     *)
(* turn_right the new direction_vector is the previous right_vector.       *)
C15_Turns ==
  /\ agent_dir \in 0 .. 3
  /\ act \in {left, right} =>
       /\ agent_pos = pre.agent_pos /\ grid = pre.grid
       /\ carrying = pre.carrying /\ objs = pre.objs
  /\ act = left => agent_dir = (pre.agent_dir - 1) % 4
  /\ act = right =>
       /\ agent_dir = (pre.agent_dir + 1) % 4
       /\ dir_vec(agent_dir) = right_vec(pre.agent_dir)
  /\ (act = right /\ pre.act = left) => agent_dir = pre2.agent_dir
  /\ rotate_left(rotate_left(rotate_left(rotate_left(World)))) = World
  /\ rotate_right(rotate_right(rotate_right(rotate_right(World)))) = World

(* C17: step(toggle) with a Box in the forward cell always succeeds and    *)
(* replaces the box in that cell by the box's contained object, or leaves  *)
(* the cell empty if the box contains nothing; the box is then in no cell  *)
(* and not in the inventory, and no other cell and not the inventory       *)
(* changes.                                                                *)
C17_BoxToggle ==
  (act = toggle /\ PreFwdType = "box") =>
    /\ ~raised
    /\ toggle_ret = "True"
    /\ grid = [pre.grid EXCEPT ![PreFwdPos] = pre.objs[PreFwdCell].contains]
    /\ ~InCell(PreFwdCell) /\ carrying # PreFwdCell
    /\ carrying = pre.carrying
    /\ objs = pre.objs

\* an empty box toggled away while the agent carries something
C17_Witness ==
  /\ act = toggle /\ PreFwdType = "box"
  /\ pre.objs[PreFwdCell].contains = None
  /\ grid[PreFwdPos] = None
  /\ carrying # None

(* C18 as stated: step with an action value outside 0..6 ends in a fatal   *)
(* error and leaves agent_position, agent_direction, inventory, grid and   *)
(* step_count as they were before the call.                                *)
C18_UnknownActionNoEffect ==
  act \in UnknownActions =>
    /\ raised
    /\ agent_pos = pre.agent_pos /\ agent_dir = pre.agent_dir
    /\ carrying = pre.carrying /\ grid = pre.grid /\ objs = pre.objs
    /\ step_count = pre.step_count

(* C18 as amended: step with an action value outside 0..6 ends in a fatal  *)
(* error instead of being absorbed as a no-op; the failing call leaves     *)
(* agent_position, agent_direction, inventory and grid as they were, and   *)
(* step_count larger by 1.                                                 *)
C18_UnknownAction ==
  act \in UnknownActions =>
    /\ raised
    /\ agent_pos = pre.agent_pos /\ agent_dir = pre.agent_dir
    /\ carrying = pre.carrying /\ grid = pre.grid /\ objs = pre.objs
    /\ step_count = pre.step_count + 1

\* an unknown action passed while the forward cell is a cell of the grid
C18_Witness ==
  /\ act \in UnknownActions /\ raised
  /\ PreFwdIn
  /\ pre.carrying # None
  /\ step_count = pre.step_count + 1

(* C11: after reset, whatever the state before it, step_count = 0, the     *)
(* inventory is empty, agent_position = start_position and                 *)
(* agent_direction = start_direction; reset fails instead of returning     *)
(* exactly if the generator left start_position or start_direction unset   *)
(* or put a non-overlap-capable object on the start cell.                  *)
C11_Reset ==
  act = RESET =>
    LET unset == start_pos = NoPos \/ start_dir = NoDir
        cell == IF unset THEN None ELSE grid[start_pos]
        blocked == /\ cell # None
                   /\ objs[cell].type \notin {"floor", "goal"}
                   /\ ~(objs[cell].type = "door" /\ objs[cell].is_open)
    IN /\ raised <=> (unset \/ blocked)
       /\ ~raised =>
            /\ step_count = 0
            /\ carrying = None
            /\ agent_pos = start_pos
            /\ agent_dir = start_dir

\* a reset that returns after steps that moved the agent with an object in hand
C11_Witness ==
  /\ act = RESET /\ ~raised
  /\ pre.step_count > 1
  /\ pre.carrying # None
  /\ pre.agent_pos # start_pos
  /\ pre.agent_dir # start_dir
  /\ step_count = 0 /\ carrying = None /\ agent_pos = start_pos

(* C16: every door satisfies is_locked => ~is_open throughout its life,    *)
(* as constructed with any combination of the constructor's flags and      *)
(* after any sequence of toggles with any inventory; and for every door    *)
(* can_overlap() = see_behind() = is_open.                                 *)
C16_DoorInvariant ==
  \A i \in DOMAIN objs :
    objs[i].type = "door" =>
      /\ objs[i].is_locked => ~objs[i].is_open
      /\ can_overlap(objs[i]) = objs[i].is_open
      /\ see_behind(objs[i]) = objs[i].is_open

\* the part of C16 that holds: doors are passable and transparent iff open
C16_DoorOverlap ==
  \A i \in DOMAIN objs :
    objs[i].type = "door" =>
      /\ can_overlap(objs[i]) = objs[i].is_open
      /\ see_behind(objs[i]) = objs[i].is_open

\* the agent has walked onto a door that is still locked
C16_ThroughLockedDoor ==
  /\ grid[agent_pos] # None
  /\ objs[grid[agent_pos]].type = "door"
  /\ objs[grid[agent_pos]].is_locked

(* C12: for every agent position p and direction d in 0..3,                *)
(* relative_coords of the agent's forward cell p + dir_vec(d) is the       *)
(* in-view coordinate (AGENT_VIEW_SIZE // 2, AGENT_VIEW_SIZE - 2) = (3, 5) *)
(* and relative_coords of the agent's own cell is (3, 6); neither is       *)
(* reported as outside the view.                                           *)
C12_ForwardCell ==
  fn.op = "relative_coords" =>
    /\ AGENT_VIEW_SIZE \div 2 = 3 /\ AGENT_VIEW_SIZE - 2 = 5
    /\ <<fn.x, fn.y>> = front_pos(agent_pos, agent_dir) => fn.ret = <<3, 5>>
    /\ <<fn.x, fn.y>> = agent_pos => fn.ret = <<3, 6>>

\* relative_coords asked about a forward cell that lies off the grid
C12_Witness ==
  /\ fn.op = "relative_coords"
  /\ <<fn.x, fn.y>> = front_pos(agent_pos, agent_dir)
  /\ ~InBounds(<<fn.x, fn.y>>)
  /\ agent_dir = 3
  /\ fn.ret = <<3, 5>>

(* C13: place_obj with a finite max_tries = N draws at most N candidate    *)
(* positions; if none of those N candidates is accepted it raises a fatal  *)
(* error (it never draws an (N+1)-th candidate) and the grid is left       *)
(* unchanged.                                                              *)
C13_AtMostNDraws ==
  (fn.op \in PlaceOps /\ fn.max_tries # Inf) =>
    /\ fn.num_tries <= fn.max_tries
    /\ fn.err = "RecursionError" => grid = fn.grid

\* what the code does instead: up to N + 1 candidates are drawn
C13_AtMostNPlusOneDraws ==
  (fn.op \in PlaceOps /\ fn.max_tries # Inf) =>
    /\ fn.num_tries <= fn.max_tries + 1
    /\ fn.err = "RecursionError" =>
         (grid = fn.grid /\ fn.num_tries = fn.max_tries + 1)

\* place_obj returns the (N+1)-th candidate after N rejected ones
C13_ExtraDrawAccepted ==
  /\ fn.op = "place_obj" /\ fn.max_tries = 1
  /\ fn.pc = "returned" /\ fn.num_tries = 2

(* C14: whenever place_obj returns a position, it lies inside the requested *)
(* region, the cell was unoccupied before the call, it differs from the    *)
(* agent's start position (when one is set) and the rejection predicate    *)
(* (when given) did not reject it; exactly that one cell of the grid is    *)
(* changed, and place_agent changes no cell at all and sets start_pos to   *)
(* the returned position.                                                  *)
C14_PlaceReturns ==
  (fn.op \in PlaceOps /\ fn.pc = "returned") =>
    /\ InRegion(fn.top, fn.size, fn.pos)
    /\ InBounds(fn.pos)
    /\ fn.grid[fn.pos] = None
    /\ fn.start # NoPos => fn.pos # fn.start
    /\ fn.reject_fn # "none" => ~reject_fn(fn.reject_fn, fn.pos)
    /\ \A c \in Cells : c # fn.pos => grid[c] = fn.grid[c]
    /\ fn.op = "place_obj" =>
         /\ grid[fn.pos] = fn.obj /\ grid[fn.pos] # fn.grid[fn.pos]
         /\ objs[fn.obj].cur_pos = fn.pos
    /\ fn.op = "place_agent" => (grid = fn.grid /\ start_pos = fn.pos)

\* place_obj, given a start position and a reject_fn, returns after at least
\* two candidates were turned down
C14_Witness ==
  /\ fn.op = "place_obj" /\ fn.pc = "returned"
  /\ fn.start # NoPos /\ fn.reject_fn # "none"
  /\ fn.num_tries > 2
  /\ grid[fn.pos] = fn.obj
  /\ \E c \in Cells : fn.grid[c] # None

\* place_agent returns and start_pos is the returned position
C14_AgentPlaced ==
  /\ fn.op = "place_agent" /\ fn.pc = "returned"
  /\ pre.agent_pos # fn.pos /\ start_pos = fn.pos

\* cell c of the grid handed to encode and of the decoded grid hold the same:
\* nothing, or objects of the same kind, color and door state
SameCell(c) ==
  IF fn.grid[c] = None THEN fn.decoded[c].type = "empty"
  ELSE /\ fn.grid[c] # OutOfBounds
       /\ fn.decoded[c].type = fn.objs[fn.grid[c]].type
       /\ fn.decoded[c].color = fn.objs[fn.grid[c]].color
       /\ fn.decoded[c].is_open = fn.objs[fn.grid[c]].is_open
       /\ fn.decoded[c].is_locked = fn.objs[fn.grid[c]].is_locked

\* a grid without unseen cells: objects and empty cells only, all visible
FullyVisible ==
  /\ fn.op = "encode_decode"
  /\ \A c \in Cells : fn.vis_mask[c] /\ fn.grid[c] # OutOfBounds

(* C19: for every grid g (cells empty or holding Wall, Floor, Door in any   *)
(* open/closed/locked state, Key, Ball, Box, Goal of any palette color)    *)
(* and the all-true visibility mask, decode(encode(g, mask)) equals g cell *)
(* by cell: same kind, same color and, for doors, the same is_open /       *)
(* is_locked state.                                                        *)
C19_RoundTrip ==
  FullyVisible => \A c \in Cells : SameCell(c)

\* the round trip for grids whose locked doors are all closed
C19_RoundTripLockedClosed ==
  (FullyVisible /\ \A i \in DOMAIN fn.objs :
                     fn.objs[i].is_locked => ~fn.objs[i].is_open)
    => \A c \in Cells : SameCell(c)

\* a grid with a locked door and a key has made the round trip
C19_LockedDoorRoundTrip ==
  /\ FullyVisible
  /\ fn.objs[1].type = "key" /\ fn.objs[1].color = "yellow"
  /\ \E c \in Cells : fn.grid[c] = 2 /\ fn.objs[2].is_locked
  /\ \A c \in Cells : SameCell(c)

\* cell c of the viewport handed to process_vis stops the view: a wall, a
\* closed door, or the wall outside the grid
Occludes(c) ==
  /\ fn.grid[c] # None
  /\ \/ fn.grid[c] = OutOfBounds
     \/ fn.objs[fn.grid[c]].type = "wall"
     \/ fn.objs[fn.grid[c]].type = "door" /\ ~fn.objs[fn.grid[c]].is_open

\* visible, and not stopping the view
Lit(c) == fn.vis_mask[c] /\ ~Occludes(c)

C20_SeenBehindWall ==
  /\ fn.op = "process_vis"
  /\ Occludes(<<3, 5>>) /\ fn.vis_mask[<<3, 4>>]

(* C23: in every state reachable from reset by steps, the cell at          *)
(* agent_position is empty or holds an overlap-capable object (Floor,      *)
(* Goal, open Door); no step places an object on, closes a door on, or     *)
(* otherwise changes the cell the agent stands on.                         *)
C23_AgentCellFree ==
  /\ LET cell == grid[agent_pos]
     IN \/ cell = None
        \/ objs[cell].type \in {"floor", "goal"}
        \/ objs[cell].type = "door" /\ objs[cell].is_open
  /\ Stepped =>
       LET stood == pre.grid[pre.agent_pos]
       IN /\ grid[pre.agent_pos] = stood
          /\ stood # None => objs[stood] = pre.objs[stood]

\* standing in an open doorway, the agent drops a key onto the cell ahead
C23_Witness ==
  /\ act = drop /\ ~raised
  /\ grid[agent_pos] # None /\ objs[grid[agent_pos]].type = "door"
  /\ pre.carrying # None /\ carrying = None
  /\ grid[PreFwdPos] = pre.carrying

\* object i is the content of some box
Boxed(i) == \E b \in DOMAIN objs : objs[b].type = "box" /\ objs[b].contains = i

(* C24: an object's current_position tracks where it is after any sequence *)
(* of steps: it is the off-grid sentinel (-1, -1) exactly while the object *)
(* is carried, and it is the holding cell while the object is in the grid, *)
(* for objects placed by place_obj, objects dropped by the agent and       *)
(* objects put into the grid by toggling a box.                            *)
C24_CurPosTracks ==
  \A i \in DOMAIN objs :
    /\ objs[i].cur_pos = OffGrid <=> carrying = i
    /\ \A c \in Cells : grid[c] = i => objs[i].cur_pos = c

\* the same for the objects that did not come out of a box
C24_CurPosTracksUnboxed ==
  \A i \in DOMAIN objs :
    ~Boxed(i) =>
      /\ objs[i].cur_pos = OffGrid <=> carrying = i
      /\ \A c \in Cells : grid[c] = i => objs[i].cur_pos = c

\* a ball released from its box lies in the grid and was then picked up and
\* dropped on another cell
C24_ReleasedAndMoved ==
  /\ act = drop /\ PreFwdIn
  /\ grid[PreFwdPos] # None /\ Boxed(grid[PreFwdPos])
  /\ objs[grid[PreFwdPos]].cur_pos = PreFwdPos

(* C25: unlocking is irreversible and does not consume the key: a door     *)
(* whose is_locked is false keeps it false under every later step (toggle  *)
(* on an unlocked door only flips is_open, so two toggles restore it), and *)
(* the step that unlocks a door leaves the matching key in the inventory.  *)
C25_UnlockIrreversible ==
  Stepped =>
    /\ \A i \in DOMAIN objs :
         (pre.objs[i].type = "door" /\ ~pre.objs[i].is_locked) =>
           ~objs[i].is_locked
    /\ (act = toggle /\ PreFwdType = "door"
          /\ ~pre.objs[PreFwdCell].is_locked) =>
         /\ objs[PreFwdCell].is_open = ~pre.objs[PreFwdCell].is_open
         /\ objs = [pre.objs EXCEPT ![PreFwdCell].is_open = ~@]
         /\ (pre.act = toggle /\ ~pre2.objs[PreFwdCell].is_locked) =>
              objs = pre2.objs
    /\ \A i \in DOMAIN objs :
         (pre.objs[i].type = "door" /\ pre.objs[i].is_locked
            /\ ~objs[i].is_locked) =>
           /\ act = toggle /\ PreFwdCell = i
           /\ carrying # None /\ carrying = pre.carrying
           /\ objs[carrying] = pre.objs[carrying]
           /\ objs[carrying].type = "key"
           /\ objs[carrying].color = objs[i].color

\* a door unlocked by the call before is closed again by a second toggle: it
\* stays unlocked and the key is still in the inventory
C25_Witness ==
  /\ act = toggle /\ pre.act = toggle /\ PreFwdType = "door"
  /\ pre2.objs[PreFwdCell].is_locked
  /\ ~pre.objs[PreFwdCell].is_locked /\ pre.objs[PreFwdCell].is_open
  /\ ~objs[PreFwdCell].is_locked /\ ~objs[PreFwdCell].is_open
  /\ carrying # None /\ objs[carrying].type = "key"

\* two toggles of an unlocked door have restored it
C25_TwoToggles ==
  /\ act = toggle /\ pre.act = toggle /\ PreFwdType = "door"
  /\ ~pre2.objs[PreFwdCell].is_locked
  /\ objs[PreFwdCell].is_open # pre.objs[PreFwdCell].is_open
  /\ objs = pre2.objs

(* C26: termination is absorbing until reset: once a call to step has      *)
(* returned termination = true (by goal, lava or timeout), every later     *)
(* call to step before the next reset also returns termination = true.     *)
C26_TerminalAbsorbing ==
  (Stepped /\ pre.act \in Actions /\ ~pre.raised /\ pre.done) =>
    (~raised /\ done)

\* what holds: after the step limit every call that returns reports
\* termination
C26_TimeoutAbsorbing ==
  (Returned /\ pre.step_count >= MaxSteps) => done

\* a step that returns termination = false right after a step into lava
\* returned termination = true
C26_ActiveAfterLava ==
  /\ Returned /\ ~done
  /\ pre.act = forward /\ ~pre.raised /\ pre.done
  /\ pre.step_count < MaxSteps

\* (x, y) of the last call lies in the rectangle get_view_exts returned
InExts(x, y) ==
  /\ fn.exts[1] <= x /\ x < fn.exts[3]
  /\ fn.exts[2] <= y /\ y < fn.exts[4]

(* C21: the two viewport computations agree: for every agent position,     *)
(* every direction 0..3 and every absolute cell (x, y), relative_coords    *)
(* is not None exactly when topX <= x < botX and topY <= y < botY for the  *)
(* rectangle of get_view_exts, and the agent's own cell is always inside   *)
(* that rectangle.                                                         *)
C21_ExtsAgree ==
  fn.op = "view_exts" =>
    /\ fn.ret # NoPos <=> InExts(fn.x, fn.y)
    /\ InExts(agent_pos[1], agent_pos[2])

\* facing left, the far-left column of the view is inside and the column
\* beyond it is outside
C21_Witness ==
  /\ fn.op = "view_exts" /\ agent_dir = 2
  /\ fn.x = fn.exts[1] /\ fn.y = fn.exts[2]
  /\ fn.ret = <<AGENT_VIEW_SIZE - 1, 0>>

\* a cell one step behind the agent is outside both
C21_BehindOutside ==
  /\ fn.op = "view_exts"
  /\ front_pos(<<fn.x, fn.y>>, agent_dir) = agent_pos
  /\ fn.ret = NoPos /\ ~InExts(fn.x, fn.y)

\* what the world holds on the absolute cell p: the out-of-bounds wall
\* outside the grid
WorldCell(p) == IF InBounds(p) THEN grid[p] ELSE OutOfBounds

(* C22: the observation grid is aligned with the view transform for every  *)
(* direction 0..3: after slicing the get_view_exts rectangle and applying  *)
(* rotate_left agent_dir + 1 times, the cell at view coordinate (vx, vy)   *)
(* holds the content of the world cell (x, y) with get_view_coords(x, y) = *)
(* (vx, vy) (wall for cells outside the grid), so the agent's own cell is  *)
(* the bottom-center slot and its forward cell the one directly above; the *)
(* agent slot is then overwritten with the carried object, or with empty.  *)
C22_ObsAligned ==
  fn.op = "gen_obs_grid" =>
    /\ \A p \in FarProbes :
         LET v == get_view_coords(agent_pos, agent_dir, p[1], p[2])
         IN (v \in ViewCells /\ v # ViewAgentPos) => fn.grid[v] = WorldCell(p)
    /\ \A v \in ViewCells :
         \E p \in FarProbes :
           get_view_coords(agent_pos, agent_dir, p[1], p[2]) = v
    /\ get_view_coords(agent_pos, agent_dir, agent_pos[1], agent_pos[2])
         = ViewAgentPos
    /\ fn.grid[<<ViewAgentPos[1], ViewAgentPos[2] - 1>>]
         = WorldCell(front_pos(agent_pos, agent_dir))
    /\ fn.grid[ViewAgentPos] = carrying

\* facing left with a key in hand: the key is on the agent slot, a world
\* object is seen in the view and the cell ahead of the agent is empty
C22_Witness ==
  /\ fn.op = "gen_obs_grid" /\ agent_dir = 2
  /\ carrying # None /\ fn.grid[ViewAgentPos] = carrying
  /\ fn.grid[<<ViewAgentPos[1], ViewAgentPos[2] - 1>>] = None
  /\ \E v \in ViewCells :
       v # ViewAgentPos /\ fn.grid[v] # None /\ fn.grid[v] # OutOfBounds
  /\ \E v \in ViewCells : fn.grid[v] = OutOfBounds

=============================================================================
